---- MODULE Spec2Model ----
(***************************************************************************)
(* A model of rtl_433's MQTT output, src/output_mqtt.c: the in-flight      *)
(* list, the MQTT client with its event and timer handlers, and the        *)
(* expansion of topic format strings.                                      *)
(*                                                                         *)
(* Time.  The code compares absolute times read from mg_time(); only       *)
(* differences matter.  The model keeps every stored time as an offset     *)
(* from the current time, in tenths of a second: mg_time() is Now, and     *)
(* the passing of d tenths (Tick) lowers every stored time by d.  A        *)
(* deadline that is already in the past stays at -1.  Handlers run to      *)
(* completion at one instant (single-threaded event loop).                 *)
(***************************************************************************)
EXTENDS Integers, Sequences, FiniteSets, TLC

VARIABLES
    pc,          \* "run": client in use; "freed": after mqtt_client_free;
                 \* "exited": exit(1) was called; "crashed": invalid access
    qos,         \* ctx->qos
    conn,        \* ctx->conn: "NULL" or "nc" (the connection object nc)
    nc,          \* the mongoose connection object that carries the events
    prev_status, \* ctx->prev_status
    message_id,  \* ctx->message_id (uint16_t)
    timer,       \* ctx->timer and its ev_timer_time
    inflight,    \* ctx->inflight: elems[0..len-1] and size
    tx,          \* the mg_mqtt_publish calls of the last step, in order
    log,         \* the lines the last step wrote to stderr
    left,        \* publish calls the run may still make
    offline,     \* the ids of the elements added while not connected
    last_connect, \* history: the status of the client's latest MG_EV_CONNECT
                  \* (-1 before the first) and whether, being a failure, it
                  \* differed from the one before
    fmt,         \* expand_topic: the format string, as the pieces it is made of
    data,        \* expand_topic: the record, a list of (key, type, value)
    hostname,    \* expand_topic: the hostname argument
    topic,       \* expand_topic: how the call ended and the topic it wrote
    devices,     \* mqtt->devices: the format of the devices topics, or NULL
    events,      \* mqtt->events
    states,      \* mqtt->states
    pubs,        \* the mqtt_client_publish calls of the last print_mqtt_data
    options      \* the devices, events and states options of the output's
                 \* parameter, where the run is followed from them

cvars == <<pc, qos, conn, nc, prev_status, message_id, timer, inflight, tx, log, left, offline,
           last_connect>>
tvars == <<fmt, data, hostname, topic, devices, events, states, pubs, options>>
vars  == <<pc, qos, conn, nc, prev_status, message_id, timer, inflight, tx, log, left, offline,
           last_connect, fmt, data, hostname, topic, devices, events, states, pubs, options>>

(***************************************************************************)
(* Bounds of the model                                                     *)
(***************************************************************************)
MaxPub == 2          \* publish calls in one run
MaxRetries == 2      \* the timer is followed while retries stay below this

(***************************************************************************)
(* Program constants                                                       *)
(***************************************************************************)
ResendInterval == 12     \* 1.2 s
TimerInterval == 5       \* 0.5 s
MidModulus == 65536      \* uint16_t
InitialSize == 8
Now == 0                 \* mg_time(), the origin of all stored times
ECONNREFUSED == 111
ETIMEDOUT == 110

\* the (topic, payload) pairs the callers publish, call after call: the
\* client treats both as opaque, so distinct ones stand for all
PubSeq == <<<<"ta", "x">>, <<"tb", "y">>, <<"tc", "z">>, <<"td", "w">>>>
ConnectStatus == {0, ECONNREFUSED, ETIMEDOUT}
\* the advances of time followed, in tenths of a second
TickSteps == {6}
AllocOutcomes == {"ok", "realloc", "topic", "msg"}

Line(tag, a, b) == [tag |-> tag, a |-> a, b |-> b]

(***************************************************************************)
(* MQTT transmission list                                                  *)
(***************************************************************************)
Elem(t, s, timeout, retries, mid) ==
    [topic |-> t, msg |-> s, timeout |-> timeout, retries |-> retries, mid |-> mid]

EmptyList == [elems |-> <<>>, size |-> 0]

ListLen(list) == Len(list.elems)

Mids(list) == {list.elems[i].mid : i \in 1..Len(list.elems)}

\* inflight_ensure_size: the list with room for min_size elements
InflightEnsureSize(list, min_size) ==
    IF list.size = 0 \/ list.size < min_size
    THEN [list EXCEPT !.size = min_size]
    ELSE list

\* the size inflight_add asks for when the list is full
GrowSize(list) ==
    IF list.size < InitialSize THEN InitialSize ELSE list.size + list.size \div 2

\* inflight_add.  alloc names the allocation that fails in this call, if
\* any: "realloc" (FATAL_REALLOC ends the process), "topic" or "msg" (the
\* strdup fails: a warning, and nothing is added).
InflightAdd(list, t, mid, s, alloc) ==
    LET full == ListLen(list) >= list.size
        l1 == IF full THEN InflightEnsureSize(list, GrowSize(list)) ELSE list
    IN  IF full /\ alloc = "realloc"
        THEN [list |-> list, fatal |-> TRUE, log |-> <<Line("fatal_realloc", 0, 0)>>]
        ELSE IF alloc \in {"topic", "msg"}
        THEN [list |-> l1, fatal |-> FALSE, log |-> <<Line("warn_strdup", 0, 0)>>]
        ELSE [list |-> [l1 EXCEPT !.elems =
                           Append(@, Elem(t, s, Now + ResendInterval, 0, mid))],
              fatal |-> FALSE,
              log |-> <<Line("publishing", mid, ListLen(l1) + 1)>>]

\* inflight_remove_at that shrinks the list without the swap
M_RemoveLast(list, idx) ==
    IF idx >= ListLen(list)
    THEN list
    ELSE [list EXCEPT !.elems = SubSeq(@, 1, Len(@) - 1)]

\* inflight_remove_at that removes nothing
M_InflightRemoveAt(list, idx) == list

\* inflight_remove_at, idx counted from 0 as in the code
InflightRemoveAt(list, idx) ==
    IF idx >= ListLen(list)
    THEN list
    ELSE LET n == ListLen(list) - 1
         IN  [list EXCEPT !.elems =
                 [k \in 1..n |-> IF k = idx + 1 /\ n > 0
                                 THEN list.elems[n + 1]
                                 ELSE list.elems[k]]]

\* the first index (from 0) whose element holds mid, or -1
FindMid(list, mid) ==
    IF mid \in Mids(list)
    THEN (CHOOSE i \in 1..ListLen(list) :
             /\ list.elems[i].mid = mid
             /\ \A j \in 1..(i - 1) : list.elems[j].mid # mid) - 1
    ELSE -1

\* inflight_remove: the list afterwards, the value returned, the line logged
InflightRemove(list, mid) ==
    LET i == FindMid(list, mid)
    IN  IF i >= 0
        THEN LET l1 == InflightRemoveAt(list, i)
             IN  [list |-> l1, ret |-> i,
                  log |-> <<Line("acknowledge", mid, ListLen(l1))>>]
        ELSE [list |-> list, ret |-> -1, log |-> <<>>]

\* inflight_clear
InflightClear(list) == [list EXCEPT !.elems = <<>>]

\* inflight_free
InflightFree(list) == [InflightClear(list) EXCEPT !.size = 0]

(***************************************************************************)
(* MQTT client                                                             *)
(***************************************************************************)
NoConn == [st |-> "none", user_data |-> FALSE, proto_handler |-> FALSE, close |-> FALSE]

\* the connection mg_connect_opt returns, with connect_opts.user_data = ctx
NewConn == [st |-> "connecting", user_data |-> TRUE, proto_handler |-> FALSE,
            close |-> FALSE]

TimerNone == [st |-> "none", at |-> 0]    \* ctx->timer is NULL
TimerOff == [st |-> "off", at |-> 0]      \* mg_set_timer(ctx->timer, 0)
TimerAt(t) == [st |-> "armed", at |-> t]

\* the connection test without the look at proto_handler
M_Connected == conn = "nc"

\* ctx->conn && ctx->conn->proto_handler
Connected == conn = "nc" /\ nc.proto_handler

\* the increment without the wrap of the 16 bits
M_NextMid(mid) == mid + 1

\* ctx->message_id++ on a uint16_t
NextMid(mid) == (mid + 1) % MidModulus

\* one mg_mqtt_publish call
Sent(t, mid, s, resend) == [topic |-> t, mid |-> mid, msg |-> s, resend |-> resend]

\* mqtt_client_init that sets the timer up whatever the qos
M_ClientInit(q) ==
    /\ pc = "run"
    /\ qos = q
    /\ conn = "nc"
    /\ nc = NewConn
    /\ prev_status = 0
    /\ message_id = 0
    /\ timer = TimerAt(Now + TimerInterval)
    /\ inflight = EmptyList
    /\ tx = <<>>
    /\ log = <<>>
    /\ left = MaxPub
    /\ offline = {}
    /\ last_connect = [code |-> -1, first |-> FALSE]

\* mqtt_client_init has returned: the connection attempt is under way and,
\* for qos > 0, the timer is set to fire in 0.5 s
ClientInit(q) ==
    /\ pc = "run"
    /\ qos = q
    /\ conn = "nc"
    /\ nc = NewConn
    /\ prev_status = 0
    /\ message_id = 0
    /\ timer = IF q > 0 THEN TimerAt(Now + TimerInterval) ELSE TimerNone
    /\ inflight = EmptyList
    /\ tx = <<>>
    /\ log = <<>>
    /\ left = MaxPub
    /\ offline = {}
    /\ last_connect = [code |-> -1, first |-> FALSE]

(***************************************************************************)
(* Topic format strings.  A string is a sequence of characters; NUL is     *)
(* what is read at the terminator.                                         *)
(***************************************************************************)
NUL == "NUL"
Lower == {"a", "b", "c", "d", "e", "f", "g", "h", "i", "j", "k", "l", "m",
          "n", "o", "p", "q", "r", "s", "t", "u", "v", "w", "x", "y", "z"}
Upper == {"A", "B", "C", "D", "E", "F", "G", "H", "I", "J", "K", "L", "M",
          "N", "O", "P", "Q", "R", "S", "T", "U", "V", "W", "X", "Y", "Z"}
DigitChar == <<"0", "1", "2", "3", "4", "5", "6", "7", "8", "9">>
Digits == {DigitChar[i] : i \in 1..10}

\* *p for p = s + (i - 1)
At(s, i) == IF i <= Len(s) THEN s[i] ELSE NUL

\* the first position from i on whose character is in stops or the terminator
RECURSIVE ScanTo(_, _, _)
ScanTo(s, i, stops) ==
    IF At(s, i) = NUL \/ At(s, i) \in stops THEN i ELSE ScanTo(s, i + 1, stops)

\* sprintf("%d", n) for n >= 0
RECURSIVE DecNat(_)
DecNat(n) == IF n < 10 THEN <<DigitChar[n + 1]>>
                       ELSE DecNat(n \div 10) \o <<DigitChar[(n % 10) + 1]>>

\* sprintf("%d", n)
Dec(n) == IF n < 0 THEN <<"-">> \o DecNat(-n) ELSE DecNat(n)

\* mqtt_sanitize_topic
MqttSanitizeTopic(s) ==
    [i \in 1..Len(s) |->
        IF s[i] # "-" /\ s[i] # "." /\ s[i] \notin Upper /\ s[i] \notin Lower
           /\ s[i] \notin Digits
        THEN "_" ELSE s[i]]

\* a data_t: key, type and the value of that type
DataString(key, str) ==
    [key |-> key, type |-> "DATA_STRING", str |-> str, int |-> 0, arr |-> <<>>]
DataInt(key, n) ==
    [key |-> key, type |-> "DATA_INT", str |-> <<>>, int |-> n, arr |-> <<>>]
\* an array of ints
DataArray(key, ns) ==
    [key |-> key, type |-> "DATA_ARRAY", str |-> <<>>, int |-> 0, arr |-> ns]
DataOther(key, type) ==
    [key |-> key, type |-> type, str |-> <<>>, int |-> 0, arr |-> <<>>]
NoData == [key |-> "", type |-> "NULL", str |-> <<>>, int |-> 0, arr |-> <<>>]

\* append_topic: what is appended to the topic for the data
AppendTopic(d) ==
    IF d.type = "DATA_STRING" THEN MqttSanitizeTopic(d.str)
    ELSE IF d.type = "DATA_INT" THEN Dec(d.int)
    ELSE <<>>

\* expand_topic's first loop: the last element of the record with the key,
\* or NoData (NULL)
WellKnown(rec, key) ==
    LET hits == {i \in 1..Len(rec) : rec[i].key = key}
    IN  IF hits = {} THEN NoData
        ELSE rec[CHOOSE i \in hits : \A j \in hits : j <= i]

\* the token names, in the order expand_topic tries them
NameHostname == <<"h", "o", "s", "t", "n", "a", "m", "e">>
NameType == <<"t", "y", "p", "e">>
NameModel == <<"m", "o", "d", "e", "l">>
NameSubtype == <<"s", "u", "b", "t", "y", "p", "e">>
NameChannel == <<"c", "h", "a", "n", "n", "e", "l">>
NameId == <<"i", "d">>
NameProtocol == <<"p", "r", "o", "t", "o", "c", "o", "l">>

\* !strncmp(t_start, name, t_end - t_start) for the token tok: tok has no
\* terminator inside, so the first Len(tok) characters agree exactly when
\* tok is a prefix of name
StrnEq(tok, name) == Len(tok) <= Len(name) /\ tok = SubSeq(name, 1, Len(tok))

\* expand_topic's chain of comparisons: which value the token names
ResolveToken(tok) ==
    IF StrnEq(tok, NameHostname) THEN "hostname"
    ELSE IF StrnEq(tok, NameType) THEN "type"
    ELSE IF StrnEq(tok, NameModel) THEN "model"
    ELSE IF StrnEq(tok, NameSubtype) THEN "subtype"
    ELSE IF StrnEq(tok, NameChannel) THEN "channel"
    ELSE IF StrnEq(tok, NameId) THEN "id"
    ELSE IF StrnEq(tok, NameProtocol) THEN "protocol"
    ELSE "unknown"

\* the token's output with the leading character written before the test
\* for a value
M_TokenOutput(leading_slash, dt, is_host, host, has_default, default) ==
    (IF leading_slash # NUL THEN <<leading_slash>> ELSE <<>>)
    \o (IF dt # NoData THEN AppendTopic(dt)
        ELSE IF is_host THEN host
        ELSE default)

\* "append token or default": what one resolved token adds to the topic.
\* dt is data_token (NoData for NULL), host is string_token or NUL for
\* NULL, has_default tells whether d_start is set.
TokenOutput(leading_slash, dt, is_host, host, has_default, default) ==
    IF dt = NoData /\ ~is_host /\ ~has_default
    THEN <<>>
    ELSE (IF leading_slash # NUL THEN <<leading_slash>> ELSE <<>>)
         \o (IF dt # NoData THEN AppendTopic(dt)
             ELSE IF is_host THEN host
             ELSE default)

\* expand_topic's main loop from position i of the format f, with out
\* already written.  st is "ok" (returned), "exit" (exit(1) after a
\* message) or "undefined" (the format was read past its terminator).
RECURSIVE ExpandFrom(_, _, _, _, _)
ExpandFrom(f, i, out, rec, host) ==
    LET j == ScanTo(f, i, {"["})
        out1 == out \o SubSeq(f, i, j - 1)
        c == At(f, j + 1)
        sep == c \notin Lower
        leading_slash == IF sep THEN c ELSE NUL
        ts == IF sep THEN j + 2 ELSE j + 1
        te == ScanTo(f, ts, {":", "]", "["})
        tok == SubSeq(f, ts, te - 1)
        has_default == At(f, te) = ":"
        de == IF has_default THEN ScanTo(f, te + 1, {"]", "["}) ELSE te
        default == IF has_default THEN SubSeq(f, te + 1, de - 1) ELSE <<>>
        which == ResolveToken(tok)
    IN  IF At(f, j) = NUL THEN [st |-> "ok", buf |-> out1]
        ELSE IF c = NUL THEN [st |-> "undefined", buf |-> out1]
        ELSE IF At(f, de) # "]" THEN [st |-> "exit", buf |-> out1]
        ELSE IF which = "unknown" THEN [st |-> "exit", buf |-> out1]
        ELSE ExpandFrom(f, de + 1,
                        out1 \o TokenOutput(leading_slash,
                                            IF which = "hostname" THEN NoData
                                            ELSE WellKnown(rec, which),
                                            which = "hostname", host,
                                            has_default, default),
                        rec, host)

\* expand_topic(topic, format, data, hostname)
ExpandTopic(f, rec, host) == ExpandFrom(f, 1, <<>>, rec, host)

(***************************************************************************)
(* The formats and records expand_topic is followed on.  A format is built *)
(* from pieces: literal text, or a token [<sep><name>] or                  *)
(* [<sep><name>:<default>].                                                *)
(***************************************************************************)
MaxPieces == 2       \* pieces in one format

Lit(text) == [kind |-> "lit", text |-> text, sep |-> <<>>, name |-> <<>>,
              def |-> FALSE, deftext |-> <<>>]
Tok(sep, name) == [kind |-> "tok", text |-> <<>>, sep |-> sep, name |-> name,
                   def |-> FALSE, deftext |-> <<>>]
TokDef(sep, name, deftext) == [kind |-> "tok", text |-> <<>>, sep |-> sep,
                               name |-> name, def |-> TRUE, deftext |-> deftext]

\* the characters of one piece
PieceText(p) ==
    IF p.kind = "lit" THEN p.text
    ELSE <<"[">> \o p.sep \o p.name
         \o (IF p.def THEN <<":">> \o p.deftext ELSE <<>>) \o <<"]">>

RECURSIVE Flatten(_)
Flatten(ps) == IF ps = <<>> THEN <<>> ELSE PieceText(Head(ps)) \o Flatten(Tail(ps))

Pieces == {
    Lit(<<"a">>),
    Lit(<<"/", "b", "]">>),
    Tok(<<"/">>, NameChannel),
    Tok(<<>>, NameChannel),
    Tok(<<"/">>, NameId),
    Tok(<<"-">>, NameModel),
    Tok(<<"/">>, NameSubtype),
    TokDef(<<"/">>, NameChannel, <<"0">>),
    Tok(<<"/">>, NameHostname),
    Tok(<<"/">>, <<"m", "o", "d">>),      \* [/mod]
    Tok(<<"/">>, <<>>),                   \* [/]
    Tok(<<"/">>, <<"x">>),                \* [/x]
    Lit(<<"[", "i", "d">>) }              \* a token that is not closed

Formats == UNION {[1..n -> Pieces] : n \in 1..MaxPieces}

Records == {
    <<>>,
    <<DataString("model", <<"X", "1">>), DataInt("id", 7)>>,
    <<DataString("model", <<"X", "/", "1">>), DataInt("channel", 3), DataInt("id", 42)>>,
    <<DataString("type", <<"T">>), DataString("subtype", <<"s", " ", "+">>),
      DataString("channel", <<"A">>)>>,
    <<DataString("model", <<"X", "1">>), DataOther("id", "DATA_DOUBLE"),
      DataArray("channel", <<1, 2>>)>> }

\* mqtt->devices, mqtt->events, mqtt->states: NULL, or a format
NoTopic == [null |-> TRUE, f |-> <<>>]
Topic(f) == [null |-> FALSE, f |-> f]

\* the names gethostname may give, cut at the first dot
Hosts == {<<"h", "1">>, <<"h", "#", "1">>}

\* an option that is not given
NoOption == [given |-> FALSE, val |-> NoTopic]
NoOptions == [d |-> NoOption, e |-> NoOption, s |-> NoOption]

\* no output is configured
OutputIdle ==
    /\ devices = NoTopic
    /\ events = NoTopic
    /\ states = NoTopic
    /\ pubs = <<>>
    /\ options = NoOptions

TopicIdle ==
    /\ fmt = <<>>
    /\ data = <<>>
    /\ hostname = <<>>
    /\ topic = [st |-> "idle", buf |-> <<>>]
    /\ OutputIdle

Init == (\E q \in {0, 1} : ClientInit(q)) /\ TopicIdle

\* mqtt_client_publish(ctx, t, s)
Publish(t, s, alloc) ==
    /\ pc = "run"
    /\ left > 0
    /\ alloc = "ok" \/ qos > 0
    /\ alloc = "realloc" => ListLen(inflight) >= inflight.size
    /\ LET mid == NextMid(message_id)
           add == IF qos > 0
                  THEN InflightAdd(inflight, t, mid, s, alloc)
                  ELSE [list |-> inflight, fatal |-> FALSE, log |-> <<>>]
       IN  /\ message_id' = mid
           /\ inflight' = add.list
           /\ log' = add.log
           /\ pc' = IF add.fatal THEN "exited" ELSE pc
           /\ tx' = IF ~add.fatal /\ Connected
                    THEN <<Sent(t, mid, s, FALSE)>>
                    ELSE <<>>
    /\ left' = left - 1
    /\ offline' = IF qos > 0 /\ ~Connected /\ alloc = "ok"
                   THEN offline \cup {NextMid(message_id)}
                   ELSE offline \ {NextMid(message_id)}
    /\ UNCHANGED <<qos, conn, nc, prev_status, timer>>
    /\ UNCHANGED <<last_connect, tvars>>

\* the history of the connect results after one more result
ConnectResult(status, last) ==
    [code |-> status, first |-> status # 0 /\ last.code # status]

\* the connect handler that records only the failures in prev_status
M_EvConnect(status) ==
    /\ pc \in {"run", "freed"}
    /\ nc.st = "connecting"
    /\ nc' = IF status = 0
             THEN [nc EXCEPT !.st = "open", !.proto_handler = TRUE]
             ELSE [nc EXCEPT !.st = "failed"]
    /\ log' = IF status = 0
              THEN <<Line("connected", 0, 0)>>
                   \o (IF nc.user_data THEN <<Line("handshake", 0, 0)>> ELSE <<>>)
              ELSE IF nc.user_data /\ prev_status # status
                   THEN <<Line("connect_error", status, 0)>>
                   ELSE <<>>
    /\ prev_status' = IF nc.user_data /\ status # 0 THEN status ELSE prev_status
    /\ last_connect' = IF nc.user_data THEN ConnectResult(status, last_connect)
                       ELSE last_connect
    /\ tx' = <<>>
    /\ UNCHANGED <<pc, qos, conn, message_id, timer, inflight, left, offline>>
    /\ UNCHANGED tvars

\* mqtt_client_event, MG_EV_CONNECT with *(int *)ev_data = status
EvConnect(status) ==
    /\ pc \in {"run", "freed"}
    /\ nc.st = "connecting"
    /\ nc' = IF status = 0
             THEN [nc EXCEPT !.st = "open", !.proto_handler = TRUE]
             ELSE [nc EXCEPT !.st = "failed"]
    /\ log' = IF status = 0
              THEN <<Line("connected", 0, 0)>>
                   \o (IF nc.user_data THEN <<Line("handshake", 0, 0)>> ELSE <<>>)
              ELSE IF nc.user_data /\ prev_status # status
                   THEN <<Line("connect_error", status, 0)>>
                   ELSE <<>>
    /\ prev_status' = IF nc.user_data THEN status ELSE prev_status
    /\ last_connect' = IF nc.user_data THEN ConnectResult(status, last_connect)
                       ELSE last_connect
    /\ tx' = <<>>
    /\ UNCHANGED <<pc, qos, conn, message_id, timer, inflight, left, offline>>
    /\ UNCHANGED tvars

\* mqtt_client_event, MG_EV_MQTT_CONNACK
EvConnack(accepted) ==
    /\ pc \in {"run", "freed"}
    /\ nc.st = "open"
    /\ log' = IF accepted THEN <<Line("connack_ok", 0, 0)>>
                          ELSE <<Line("connack_error", 0, 0)>>
    /\ tx' = <<>>
    /\ UNCHANGED <<pc, qos, conn, nc, prev_status, message_id, timer, inflight, left, offline>>
    /\ UNCHANGED <<last_connect, tvars>>

\* mqtt_client_event, MG_EV_MQTT_PUBACK with msg->message_id = mid.  With
\* ctx NULL the handler reads through a null pointer: the process crashes
\* or the read finds no element.
EvPuback(mid) ==
    /\ pc \in {"run", "freed"}
    /\ nc.st = "open"
    /\ IF nc.user_data
       THEN LET r == InflightRemove(inflight, mid)
            IN  /\ inflight' = r.list
                /\ log' = r.log \o (IF r.ret >= 0 THEN <<>>
                                    ELSE <<Line("unknown_ack", mid, 0)>>)
                /\ pc' = pc
                /\ offline' = IF r.ret >= 0 THEN offline \ {mid} ELSE offline
       ELSE /\ inflight' = inflight
            /\ offline' = offline
            /\ \/ pc' = "crashed" /\ log' = <<>>
               \/ pc' = pc /\ log' = <<Line("unknown_ack", mid, 0)>>
    /\ tx' = <<>>
    /\ UNCHANGED <<qos, conn, nc, prev_status, message_id, timer, left>>
    /\ UNCHANGED <<last_connect, tvars>>

\* the close handler that also clears the list
M_EvClose(made) ==
    /\ pc \in {"run", "freed"}
    /\ nc.st # "none"
    /\ IF ~nc.user_data
       THEN /\ made
            /\ nc' = NoConn
            /\ UNCHANGED <<conn, inflight>>
       ELSE /\ conn' = IF made THEN "nc" ELSE "NULL"
            /\ nc' = IF made THEN NewConn ELSE NoConn
            /\ inflight' = InflightClear(inflight)
    /\ log' = <<>>
    /\ tx' = <<>>
    /\ UNCHANGED <<pc, qos, prev_status, message_id, timer, left, offline>>
    /\ UNCHANGED <<last_connect, tvars>>

\* mqtt_client_event, MG_EV_CLOSE.  made tells whether mg_connect_opt
\* returns a connection.
EvClose(made) ==
    /\ pc \in {"run", "freed"}
    /\ nc.st # "none"
    /\ IF ~nc.user_data
       THEN /\ made
            /\ nc' = NoConn
            /\ log' = <<>>
            /\ UNCHANGED conn
       ELSE /\ conn' = IF made THEN "nc" ELSE "NULL"
            /\ nc' = IF made THEN NewConn ELSE NoConn
            /\ log' = (IF prev_status = 0 THEN <<Line("connection_failed", 0, 0)>>
                                          ELSE <<>>)
                      \o (IF made THEN <<>> ELSE <<Line("connect_failed", 0, 0)>>)
    /\ tx' = <<>>
    /\ UNCHANGED <<pc, qos, prev_status, message_id, timer, inflight, left, offline>>
    /\ UNCHANGED <<last_connect, tvars>>

\* the timer's test with <= for <
M_DueAtDeadline(e, now) == e.timeout <= now

\* the timer's test with a ceiling on the retries
M_DueCeiling(e, now) == e.timeout < now /\ e.retries < 1

\* the elements the timer's loop resends: those with timeout < now
Due(e, now) == e.timeout < now

\* the timer's loop without the count of the retry
M_SweepElems(elems, now) ==
    [i \in 1..Len(elems) |->
        IF Due(elems[i], now)
        THEN [elems[i] EXCEPT !.timeout = now + ResendInterval]
        ELSE elems[i]]

\* the list after the timer's loop
SweepElems(elems, now) ==
    [i \in 1..Len(elems) |->
        IF Due(elems[i], now)
        THEN [elems[i] EXCEPT !.timeout = now + ResendInterval, !.retries = @ + 1]
        ELSE elems[i]]

\* the mg_mqtt_publish calls of the timer's loop, in order
SweepSends(elems, now) ==
    LET due == SelectSeq(elems, LAMBDA e : Due(e, now))
    IN  [i \in 1..Len(due) |-> Sent(due[i].topic, due[i].mid, due[i].msg, TRUE)]

SweepLog(elems, now) ==
    LET due == SelectSeq(elems, LAMBDA e : Due(e, now))
    IN  [i \in 1..Len(due) |-> Line("resending", due[i].retries + 1, due[i].mid)]

\* mqtt_client_timer, MG_EV_TIMER with *(double *)ev_data = Now.  The timer
\* connection keeps its user_data after mqtt_client_free: a timer event
\* after it would read the freed ctx (the process crashes, or the read
\* finds nothing to do).
Timer ==
    /\ pc \in {"run", "freed"}
    /\ timer.st = "armed"
    /\ timer.at <= Now
    /\ \A i \in 1..ListLen(inflight) : inflight.elems[i].retries < MaxRetries
    /\ timer' = TimerAt(Now + TimerInterval)
    /\ IF pc = "freed"
       THEN /\ pc' \in {"crashed", "freed"}
            /\ log' = <<>>
            /\ tx' = <<>>
            /\ UNCHANGED inflight
       ELSE IF Connected
       THEN /\ inflight' = [inflight EXCEPT !.elems = SweepElems(@, Now)]
            /\ tx' = SweepSends(inflight.elems, Now)
            /\ log' = SweepLog(inflight.elems, Now)
            /\ UNCHANGED pc
       ELSE /\ log' = <<>>
            /\ tx' = <<>>
            /\ UNCHANGED <<pc, inflight>>
    /\ UNCHANGED <<qos, conn, nc, prev_status, message_id, left, offline>>
    /\ UNCHANGED <<last_connect, tvars>>

\* mqtt_client_free that leaves the retry timer as it is
M_Free ==
    /\ pc = "run"
    /\ nc' = IF conn = "nc" THEN [nc EXCEPT !.user_data = FALSE, !.close = TRUE] ELSE nc
    /\ inflight' = InflightFree(inflight)
    /\ pc' = "freed"
    /\ log' = <<>>
    /\ tx' = <<>>
    /\ offline' = {}
    /\ UNCHANGED <<qos, conn, prev_status, message_id, left, timer>>
    /\ UNCHANGED <<last_connect, tvars>>

\* mqtt_client_free(ctx)
Free ==
    /\ pc = "run"
    /\ nc' = IF conn = "nc" THEN [nc EXCEPT !.user_data = FALSE, !.close = TRUE] ELSE nc
    /\ timer' = IF timer.st = "none" THEN timer ELSE TimerOff
    /\ inflight' = InflightFree(inflight)
    /\ pc' = "freed"
    /\ log' = <<>>
    /\ tx' = <<>>
    /\ offline' = {}
    /\ UNCHANGED <<qos, conn, prev_status, message_id, left>>
    /\ UNCHANGED <<last_connect, tvars>>

\* a stored time after d tenths of a second have passed
Age(t, d) == IF t - d < 0 THEN -1 ELSE t - d

\* time passes
Tick(d) ==
    /\ pc \in {"run", "freed"}
    /\ inflight' = [inflight EXCEPT !.elems =
                       [i \in 1..Len(@) |-> [@[i] EXCEPT !.timeout = Age(@, d)]]]
    /\ timer' = IF timer.st = "armed" THEN TimerAt(Age(timer.at, d)) ELSE timer
    /\ tx' = <<>>
    /\ log' = <<>>
    /\ UNCHANGED <<pc, qos, conn, nc, prev_status, message_id, left, offline>>
    /\ UNCHANGED <<last_connect, tvars>>

\* the (topic, payload) of the next publish call
NextPub == PubSeq[((MaxPub - left) % Len(PubSeq)) + 1]

\* the message ids a PUBACK may carry: those in flight and one that is not
StrayMids == {9}
AckMids == Mids(inflight) \cup StrayMids

Next ==
    \/ \E a \in AllocOutcomes : Publish(NextPub[1], NextPub[2], a)
    \/ \E status \in ConnectStatus : EvConnect(status)
    \/ \E accepted \in BOOLEAN : EvConnack(accepted)
    \/ \E mid \in AckMids : EvPuback(mid)
    \/ \E made \in BOOLEAN : EvClose(made)
    \/ Timer
    \/ Free
    \/ \E d \in TickSteps : Tick(d)

Spec == Init /\ [][Next]_vars

\* The event loop keeps polling: a timer that is due fires, and time passes.
SpecLive == Spec /\ WF_vars(Timer) /\ WF_vars(\E d \in TickSteps : Tick(d))

\* A client late in its life: the 16-bit message id is about to wrap and
\* the publish that got id 0 (the 65536th) is still unacknowledged, the
\* 65534 publishes after it having been acknowledged.
WrapStart == MidModulus - 2
InitWrap ==
    /\ pc = "run"
    /\ qos = 1
    /\ conn = "nc"
    /\ nc = [NewConn EXCEPT !.st = "open", !.proto_handler = TRUE]
    /\ prev_status = 0
    /\ message_id = WrapStart
    /\ timer = TimerAt(Now + TimerInterval)
    /\ inflight = [elems |-> <<Elem("ta", "x", Now + ResendInterval, 1, 0)>>,
                   size |-> InitialSize]
    /\ tx = <<>>
    /\ log = <<>>
    /\ left = MaxPub
    /\ offline = {}
    /\ last_connect = [code |-> 0, first |-> FALSE]
    /\ TopicIdle

SpecWrap == InitWrap /\ [][Next]_vars

\* A client either fresh from mqtt_client_init, or late in its life: it has
\* made WrapStart publishes, all of them acknowledged, and is connecting
\* again after a close.
InitCount ==
    /\ pc = "run"
    /\ qos \in {0, 1}
    /\ conn = "nc"
    /\ nc = NewConn
    /\ prev_status = 0
    /\ message_id \in {0, WrapStart}
    /\ timer = IF qos > 0 THEN TimerAt(Now + TimerInterval) ELSE TimerNone
    /\ inflight = IF qos > 0 /\ message_id # 0
                  THEN [elems |-> <<>>, size |-> InitialSize]
                  ELSE EmptyList
    /\ tx = <<>>
    /\ log = <<>>
    /\ left = MaxPub
    /\ offline = {}
    /\ last_connect = IF message_id = 0 THEN [code |-> -1, first |-> FALSE]
                      ELSE [code |-> 0, first |-> FALSE]
    /\ TopicIdle

SpecCount == InitCount /\ [][Next]_vars

(***************************************************************************)
(* expand_topic on its own: one call on a format and a record              *)
(***************************************************************************)
InitTopic ==
    /\ ClientInit(0)
    /\ fmt \in Formats
    /\ data \in Records
    /\ hostname \in Hosts
    /\ topic = [st |-> "idle", buf |-> <<>>]
    /\ OutputIdle

\* the call expand_topic(topic, format, data, hostname).  A format read
\* past its terminator has no defined outcome: the call may end the
\* process, crash, or return with whatever it wrote.
ExpandTopicCall ==
    /\ topic.st = "idle"
    /\ LET r == ExpandTopic(Flatten(fmt), data, hostname)
       IN  IF r.st = "undefined"
           THEN \E st \in {"ok", "exit", "crashed"} : topic' = [r EXCEPT !.st = st]
           ELSE topic' = r
    /\ UNCHANGED <<fmt, data, hostname, devices, events, states, pubs, options>>
    /\ UNCHANGED cvars

NextTopic == ExpandTopicCall

SpecTopic == InitTopic /\ [][NextTopic]_vars

(***************************************************************************)
(* The MQTT printer: data_output_mqtt_create sets the three topic formats  *)
(* and the client up, print_mqtt_data routes one record.  A topic is a     *)
(* sequence of characters; the key of a field that print_mqtt_data pushes  *)
(* onto it is kept as one piece of text.                                   *)
(***************************************************************************)
Channels == {"devices", "events", "states"}

\* base_topic: "rtl_433/" and the hostname
BaseTopic(host) == <<"r", "t", "l", "_", "4", "3", "3", "/">> \o host

\* path_devices, path_events, path_states
PathDevices == <<Lit(<<"d", "e", "v", "i", "c", "e", "s">>), Tok(<<"/">>, NameType),
                 Tok(<<"/">>, NameModel), Tok(<<"/">>, NameSubtype),
                 Tok(<<"/">>, NameChannel), Tok(<<"/">>, NameId)>>
PathEvents == <<Lit(<<"e", "v", "e", "n", "t", "s">>)>>
PathStates == <<Lit(<<"s", "t", "a", "t", "e", "s">>)>>

\* mqtt_topic_default that takes the suffix alone for the default
M_MqttTopicDefault(t, base, suffix, ok) ==
    IF ~ok THEN NoTopic
    ELSE IF ~t.null THEN t
    ELSE Topic(suffix)

\* mqtt_topic_default(topic, base, suffix), base never NULL in the calls
\* made; ok tells whether its strdup succeeds
MqttTopicDefault(t, base, suffix, ok) ==
    IF ~ok THEN NoTopic
    ELSE IF ~t.null THEN t
    ELSE Topic(<<Lit(base \o <<"/">>)>> \o suffix)

\* the values a devices, events or states option is given with
OptFormats == {
    <<Lit(<<"t">>), Tok(<<"/">>, NameId)>>,        \* t[/id]
    <<Lit(<<"t">>), Tok(<<"/">>, <<"x">>)>>,       \* t[/x]
    <<Lit(<<"t">>), Lit(<<"[", "i", "d">>)>> }     \* t[id

\* an option: not given, given without a value, or given with a format
OptValues ==
    {NoOption, [given |-> TRUE, val |-> NoTopic]}
    \cup {[given |-> TRUE, val |-> Topic(f)] : f \in OptFormats}

\* the process before data_output_mqtt_create
Unconfigured ==
    /\ pc = "config"
    /\ qos = 0
    /\ conn = "NULL"
    /\ nc = NoConn
    /\ prev_status = 0
    /\ message_id = 0
    /\ timer = TimerNone
    /\ inflight = EmptyList
    /\ tx = <<>>
    /\ log = <<>>
    /\ left = MaxPub
    /\ offline = {}
    /\ last_connect = [code |-> -1, first |-> FALSE]
    /\ fmt = <<>>
    /\ data = <<>>
    /\ hostname = <<"h", "1">>
    /\ topic = [st |-> "idle", buf |-> <<>>]
    /\ devices = NoTopic
    /\ events = NoTopic
    /\ states = NoTopic
    /\ pubs = <<>>

InitOutput == Unconfigured /\ options = NoOptions

\* data_output_mqtt_create with the options devices (od), events (oe),
\* states (os) and qos (q).  fails are the channels whose strdup fails in
\* the option's mqtt_topic_default, dfails those whose strdup fails in the
\* default's; made tells whether mg_connect_opt returns a connection.
Create(od, oe, os, q, fails, dfails, made) ==
    /\ pc = "config"
    /\ LET base == BaseTopic(hostname)
           d1 == IF od.given
                 THEN MqttTopicDefault(od.val, base, PathDevices, "devices" \notin fails)
                 ELSE NoTopic
           e1 == IF oe.given
                 THEN MqttTopicDefault(oe.val, base, PathEvents, "events" \notin fails)
                 ELSE NoTopic
           s1 == IF os.given
                 THEN MqttTopicDefault(os.val, base, PathStates, "states" \notin fails)
                 ELSE NoTopic
           none == d1.null /\ e1.null /\ s1.null
       IN  /\ devices' = IF none
                         THEN MqttTopicDefault(NoTopic, base, PathDevices, "devices" \notin dfails)
                         ELSE d1
           /\ events' = IF none
                        THEN MqttTopicDefault(NoTopic, base, PathEvents, "events" \notin dfails)
                        ELSE e1
           /\ states' = IF none
                        THEN MqttTopicDefault(NoTopic, base, PathStates, "states" \notin dfails)
                        ELSE s1
    /\ pc' = IF made THEN "run" ELSE "exited"
    /\ qos' = q
    /\ conn' = IF made THEN "nc" ELSE "NULL"
    /\ nc' = IF made THEN NewConn ELSE NoConn
    /\ timer' = IF made /\ q > 0 THEN TimerAt(Now + TimerInterval) ELSE TimerNone
    /\ log' = IF made THEN <<>> ELSE <<Line("connect_failed", 0, 0)>>
    /\ tx' = <<>>
    /\ UNCHANGED <<prev_status, message_id, inflight, left, offline, last_connect>>
    /\ UNCHANGED <<fmt, data, hostname, topic, pubs, options>>

\* a payload: the JSON text of a record (data_print_jsons), or plain text
Json(rec) == [kind |-> "json", rec |-> rec, text |-> <<>>]
Text(cs) == [kind |-> "text", rec |-> <<>>, text |-> cs]

\* one call mqtt_client_publish(mqtt->mqc, t, s)
Call(t, s) == [topic |-> t, payload |-> s]

\* print_mqtt_string with mqtt->topic = t
PrintMqttString(t, str) == <<Call(t, Text(str))>>

\* print_mqtt_int
PrintMqttInt(t, n) == PrintMqttString(t, Dec(n))

\* print_mqtt_array on an array of ints: every value under "/<index>"
PrintMqttArray(t, ns) ==
    [c \in 1..Len(ns) |-> PrintMqttInt(t \o <<"/">> \o Dec(c - 1), ns[c])[1]]

\* print_value: the printer of the value's type
PrintValue(t, d) ==
    IF d.type = "DATA_STRING" THEN PrintMqttString(t, d.str)
    ELSE IF d.type = "DATA_INT" THEN PrintMqttInt(t, d.int)
    ELSE IF d.type = "DATA_ARRAY" THEN PrintMqttArray(t, d.arr)
    ELSE <<>>

\* the test of print_mqtt_data's loop with subtype forgotten
M_SkipKey(key) == key \in {"type", "model"}

\* the fields print_mqtt_data's loop skips
SkipKey(key) == key \in {"type", "model", "subtype"}

\* print_mqtt_data's loop over the record: each field that is not skipped
\* is printed with its key pushed onto the topic
RECURSIVE FieldPubs(_, _)
FieldPubs(base, rec) ==
    IF rec = <<>> THEN <<>>
    ELSE (IF SkipKey(Head(rec).key) THEN <<>>
          ELSE PrintValue(base \o <<"/", Head(rec).key>>, Head(rec)))
         \o FieldPubs(base, Tail(rec))

\* expand_topic as print_mqtt_data calls it; u is what a format read past
\* its terminator ends in
Expand(t, rec, host, u) ==
    LET r == ExpandTopic(Flatten(t.f), rec, host)
    IN  IF r.st = "undefined" THEN [r EXCEPT !.st = u] ELSE r

\* print_mqtt_data's routing with the events part after the devices part
M_Route(rec, host, mem, u) ==
    LET model == WellKnown(rec, "model")
        es == Expand(states, rec, host, u)
        ee == Expand(events, rec, host, u)
        ed == Expand(devices, rec, host, u)
    IN  IF model = NoData
        THEN IF states.null \/ ~mem THEN [calls |-> <<>>, st |-> "ok"]
             ELSE IF es.st # "ok" THEN [calls |-> <<>>, st |-> es.st]
             ELSE [calls |-> <<Call(es.buf, Json(rec))>>, st |-> "ok"]
        ELSE LET dv == IF devices.null THEN [calls |-> <<>>, st |-> "ok"]
                       ELSE IF ed.st # "ok" THEN [calls |-> <<>>, st |-> ed.st]
                       ELSE [calls |-> FieldPubs(ed.buf, rec), st |-> "ok"]
             IN  IF dv.st # "ok" \/ events.null THEN dv
                 ELSE IF ee.st # "ok" THEN [calls |-> dv.calls, st |-> ee.st]
                 ELSE [calls |-> dv.calls \o <<Call(ee.buf, Json(rec))>>, st |-> "ok"]

\* print_mqtt_data on a top-level record: the mqtt_client_publish calls it
\* makes, in order, and how it ends: "ok" (returned), or as the
\* expand_topic that ended the process.  mem tells whether the malloc of
\* the states message succeeds.
Route(rec, host, mem, u) ==
    LET model == WellKnown(rec, "model")
        es == Expand(states, rec, host, u)
        ee == Expand(events, rec, host, u)
        ed == Expand(devices, rec, host, u)
    IN  IF model = NoData
        THEN IF states.null \/ ~mem THEN [calls |-> <<>>, st |-> "ok"]
             ELSE IF es.st # "ok" THEN [calls |-> <<>>, st |-> es.st]
             ELSE [calls |-> <<Call(es.buf, Json(rec))>>, st |-> "ok"]
        ELSE LET ev == IF events.null THEN [calls |-> <<>>, st |-> "ok"]
                       ELSE IF ee.st # "ok" THEN [calls |-> <<>>, st |-> ee.st]
                       ELSE [calls |-> <<Call(ee.buf, Json(rec))>>, st |-> "ok"]
             IN  IF ev.st # "ok" \/ devices.null THEN ev
                 ELSE IF ed.st # "ok" THEN [calls |-> ev.calls, st |-> ed.st]
                 ELSE [calls |-> ev.calls \o FieldPubs(ed.buf, rec), st |-> "ok"]

\* mqtt_client_publish as a step on the client's state c: the message id,
\* the list, what was transmitted and logged, whether the process ended,
\* and the number of calls made
MqttClientPublish(c, t, s, alloc) ==
    LET mid == NextMid(c.mid)
        add == IF qos > 0
               THEN InflightAdd(c.list, t, mid, s, alloc)
               ELSE [list |-> c.list, fatal |-> FALSE, log |-> <<>>]
    IN  [mid |-> mid, list |-> add.list, log |-> c.log \o add.log,
         fatal |-> add.fatal, made |-> c.made + 1,
         tx |-> c.tx \o (IF ~add.fatal /\ Connected
                         THEN <<Sent(t, mid, s, FALSE)>> ELSE <<>>)]

\* the calls one after the other, until one ends the process; alloc is
\* the allocation outcome of the first
RECURSIVE PublishAll(_, _, _)
PublishAll(c, calls, alloc) ==
    IF calls = <<>> \/ c.fatal THEN c
    ELSE PublishAll(MqttClientPublish(c, Head(calls).topic, Head(calls).payload, alloc),
                    Tail(calls), "ok")

\* the records print_mqtt_data is called with
RecordsOut == {
    <<DataInt("frames", 5), DataInt("id", 2)>>,
    <<DataString("model", <<"X", "1">>), DataInt("id", 7), DataInt("temp", 3)>>,
    <<DataString("type", <<"T">>), DataString("model", <<"X", "/", "1">>),
      DataString("subtype", <<"s">>), DataInt("channel", 3), DataString("b", <<"O", "K">>)>>,
    <<DataString("model", <<"X", "1">>), DataArray("rows", <<1, 2>>)>> }

UndefOutcomes == {"ok", "exit", "crashed"}

\* the format ends in "[": only such a format can be read past its end
EndsOpen(f) == Len(f) > 0 /\ f[Len(f)] = "["

\* print_mqtt_data(output, rec, format) with mqtt->topic empty
PrintData(rec, mem, alloc, u) ==
    /\ pc = "run"
    /\ left > 0
    /\ alloc = "ok" \/ qos > 0
    /\ alloc = "realloc" => ListLen(inflight) >= inflight.size
    /\ mem \/ (WellKnown(rec, "model") = NoData /\ ~states.null)
    /\ u = "ok" \/ \E t \in {devices, events, states} : EndsOpen(Flatten(t.f))
    /\ \E r \in {Route(rec, hostname, mem, u)} :
       \E c \in {PublishAll([mid |-> message_id, list |-> inflight, log |-> <<>>,
                             fatal |-> FALSE, made |-> 0, tx |-> <<>>],
                            r.calls, alloc)} :
           /\ pubs' = SubSeq(r.calls, 1, c.made)
           /\ message_id' = c.mid
           /\ inflight' = c.list
           /\ tx' = c.tx
           /\ log' = (IF mem THEN <<>> ELSE <<Line("warn_malloc", 0, 0)>>) \o c.log
           /\ pc' = IF c.fatal \/ r.st = "exit" THEN "exited"
                    ELSE IF r.st = "crashed" THEN "crashed"
                    ELSE pc
           /\ topic' = [st |-> IF c.fatal THEN "ok" ELSE r.st, buf |-> <<>>]
           /\ offline' = IF qos > 0 /\ ~Connected
                         THEN offline \cup (Mids(c.list) \ Mids(inflight))
                         ELSE offline
    /\ data' = rec
    /\ left' = left - 1
    /\ UNCHANGED <<qos, conn, nc, prev_status, timer, last_connect>>
    /\ UNCHANGED <<fmt, hostname, devices, events, states, options>>

NextOutput ==
    \/ /\ pc = "config"
       /\ \E od, oe, os \in OptValues, q \in {0, 1}, fails, dfails \in SUBSET Channels,
             made \in BOOLEAN : Create(od, oe, os, q, fails, dfails, made)
    \/ \E rec \in RecordsOut, mem \in BOOLEAN, alloc \in AllocOutcomes,
          u \in UndefOutcomes : PrintData(rec, mem, alloc, u)
    \/ EvConnect(0)

SpecOutput == InitOutput /\ [][NextOutput]_vars

(***************************************************************************)
(* data_output_mqtt_create on its own, followed from the options it is     *)
(* called with                                                             *)
(***************************************************************************)
InitCreate ==
    /\ Unconfigured
    /\ options \in [d : OptValues, e : OptValues, s : OptValues]

CreateCall ==
    \E q \in {0, 1}, fails, dfails \in SUBSET Channels, made \in BOOLEAN :
        Create(options.d, options.e, options.s, q, fails, dfails, made)

NextCreate == CreateCall

SpecCreate == InitCreate /\ [][NextCreate]_vars

(***************************************************************************)
(* The claims                                                              *)
(***************************************************************************)

\* the transport is connected: the current connection got MG_EV_CONNECT
\* with status 0 and has not been closed
IsOpen == conn = "nc" /\ nc.st = "open"

HasLine(tag) == \E i \in 1..Len(log) : log[i].tag = tag

\* the message ids the list operations are tried with
TryMids == AckMids \cup {NextMid(message_id)}

\* inflight_add of m (its allocations ending as alloc tells) and then
\* inflight_remove of m: found, and as many elements as before the add
AddThenRemove(alloc) ==
    \A m \in TryMids :
        LET add == InflightAdd(inflight, "ta", m, "x", alloc)
            rem == InflightRemove(add.list, m)
        IN  /\ rem.ret >= 0
            /\ ListLen(rem.list) = ListLen(inflight)

\* inflight_remove of an id no element holds: -1, and the list as it was
RemoveAbsent ==
    \A m \in TryMids \ Mids(inflight) :
        LET rem == InflightRemove(inflight, m)
        IN  rem.ret = -1 /\ rem.list = inflight

\* C1, as stated: in every state of the list and for every message id m,
\* inflight_add(topic, m, payload) followed by inflight_remove(m) reports
\* found and leaves the number of elements as before the add; and
\* inflight_remove of an id that no element holds returns -1 and changes
\* nothing.  (Fails: an inflight_add whose strdup fails adds nothing.)
C1_Orig ==
    /\ \A alloc \in {"ok", "topic", "msg"} : AddThenRemove(alloc)
    /\ RemoveAbsent

\* C1, amended: the same for every inflight_add whose allocations succeed;
\* an inflight_add whose strdup fails leaves the elements as they were.
C1_AddRemove ==
    /\ AddThenRemove("ok")
    /\ RemoveAbsent
    /\ \A alloc \in {"topic", "msg"}, m \in TryMids :
           InflightAdd(inflight, "ta", m, "x", alloc).list.elems = inflight.elems

\* an acknowledge has just removed one of two pending elements
C1_Witness == HasLine("acknowledge") /\ ListLen(inflight) >= 1

\* C2: a timer event while connected resends only elements whose timeout
\* is <= now; each element it resends gets retries + 1 and timeout
\* now + 1.2 s, later than its old timeout, and nothing else of it changes;
\* elements whose timeout is later than now are neither resent nor changed.
C2_Sweep ==
    [][(Timer /\ pc = "run" /\ IsOpen) =>
        LET old == inflight.elems
            new == inflight'.elems
            Resent(i) == \E k \in 1..Len(tx') :
                            tx'[k] = Sent(old[i].topic, old[i].mid, old[i].msg, TRUE)
        IN  /\ Len(new) = Len(old)
            /\ Len(tx') = Cardinality({i \in 1..Len(old) : Resent(i)})
            /\ \A i \in 1..Len(old) :
                  /\ (Resent(i) \/ new[i] # old[i]) =>
                        /\ old[i].timeout <= Now
                        /\ Resent(i)
                        /\ new[i] = [old[i] EXCEPT !.retries = old[i].retries + 1,
                                                   !.timeout = Now + ResendInterval]
                        /\ new[i].timeout > old[i].timeout
                  /\ old[i].timeout > Now => ~Resent(i) /\ new[i] = old[i]]_vars

\* a timer event has just resent one element and left another alone
C2_Witness ==
    /\ HasLine("resending")
    /\ Len(tx) = 1
    /\ \E i, j \in 1..ListLen(inflight) :
          /\ inflight.elems[i].retries = 1
          /\ inflight.elems[i].timeout = Now + ResendInterval
          /\ inflight.elems[j].retries = 0
          /\ inflight.elems[j].timeout > Now

\* what mqtt_client_publish(t, s) transmits: the message with the new id if
\* the transport is connected, else nothing
PublishSends(t, s) ==
    tx' = IF IsOpen THEN <<Sent(t, message_id', s, FALSE)>> ELSE <<>>

\* one element more: the new id, retries 0, timeout now + 1.2 s
PublishAdds(t, s) ==
    /\ message_id' # message_id
    /\ inflight'.elems =
          Append(inflight.elems, Elem(t, s, Now + ResendInterval, 0, message_id'))

\* C3, as stated: mqtt_client_publish with qos > 0 always adds one element
\* (the new message id, retries 0, timeout now + 1.2 s) and transmits the
\* message if and only if the transport is connected.  (Fails: when a
\* strdup in inflight_add fails no element is added.)
C3_Orig ==
    [][\A alloc \in {"ok", "topic", "msg"} :
          (qos > 0 /\ Publish(NextPub[1], NextPub[2], alloc)) =>
              PublishAdds(NextPub[1], NextPub[2]) /\ PublishSends(NextPub[1], NextPub[2])]_vars

\* C3, amended: when the allocations of inflight_add succeed, the publish
\* adds that one element; when a strdup fails it adds none; in both cases
\* it transmits the message if and only if the transport is connected.
C3_Publish ==
    [][/\ (qos > 0 /\ Publish(NextPub[1], NextPub[2], "ok")) =>
              PublishAdds(NextPub[1], NextPub[2]) /\ PublishSends(NextPub[1], NextPub[2])
       /\ \A alloc \in {"topic", "msg"} :
              (qos > 0 /\ Publish(NextPub[1], NextPub[2], alloc)) =>
                  /\ inflight'.elems = inflight.elems
                  /\ PublishSends(NextPub[1], NextPub[2])]_vars

\* a publish made while not connected: the element is there, nothing sent
C3_Witness ==
    /\ pc = "run" /\ qos > 0 /\ ~IsOpen
    /\ HasLine("publishing")
    /\ tx = <<>>
    /\ ListLen(inflight) >= 1
    /\ inflight.elems[ListLen(inflight)] =
          Elem(inflight.elems[ListLen(inflight)].topic,
               inflight.elems[ListLen(inflight)].msg,
               Now + ResendInterval, 0, message_id)

\* C4: after every MG_EV_CLOSE handled while the client has not been shut
\* down, a new connection attempt to the same address is under way.
\* (Fails in the code: mg_connect_opt may return NULL, and then ctx->conn
\* stays NULL for good.)
C4_Reconnect ==
    [][(pc = "run" /\ \E made \in BOOLEAN : EvClose(made)) =>
          (conn' = "nc" /\ nc' = NewConn)]_vars

\* the resends of the element e among the calls of the step
ResendsOf(e) ==
    {k \in 1..Len(tx') : tx'[k] = Sent(e.topic, e.mid, e.msg, TRUE)}

\* C5, as stated: for an element added by a publish made while not
\* connected, a timer event that comes once the transport is connected
\* transmits exactly one resend of it and makes its retries 1.  (Fails: a
\* timer event that comes before the element's timeout has passed resends
\* nothing.)
C5_Orig ==
    [][(Timer /\ pc = "run" /\ IsOpen) =>
          \A i \in 1..ListLen(inflight) :
              LET e == inflight.elems[i]
              IN  (e.mid \in offline /\ e.retries = 0) =>
                     /\ Cardinality(ResendsOf(e)) = 1
                     /\ inflight'.elems[i].retries = 1]_vars

\* C5, amended: such a timer event transmits exactly one resend of the
\* element and makes its retries 1 if the element's timeout (the time of
\* the publish + 1.2 s) is earlier than now; otherwise it transmits
\* nothing of it and leaves its retries 0.
C5_Resend ==
    [][(Timer /\ pc = "run" /\ IsOpen) =>
          \A i \in 1..ListLen(inflight) :
              LET e == inflight.elems[i]
              IN  (e.mid \in offline /\ e.retries = 0) =>
                     IF e.timeout < Now
                     THEN /\ Cardinality(ResendsOf(e)) = 1
                          /\ inflight'.elems[i].retries = 1
                     ELSE /\ \A k \in 1..Len(tx') : tx'[k].mid # e.mid
                          /\ inflight'.elems[i].retries = 0]_vars

\* an element added while not connected has just been resent once
C5_Witness ==
    /\ IsOpen
    /\ HasLine("resending")
    /\ \E i \in 1..ListLen(inflight) :
          /\ inflight.elems[i].mid \in offline
          /\ inflight.elems[i].retries = 1
          /\ \E k \in 1..Len(tx) : tx[k].resend /\ tx[k].mid = inflight.elems[i].mid

\* the element with message id m is pending with r retries
Has(m, r) ==
    \E i \in 1..ListLen(inflight) :
        inflight.elems[i].mid = m /\ inflight.elems[i].retries = r

\* an element leaves the list only by a PUBACK with its id or by the clear
\* of mqtt_client_free
C6_Leave ==
    [][\A m \in Mids(inflight) \ Mids(inflight') : Free \/ EvPuback(m)]_vars

\* if timer events while connected keep coming, a pending element does not
\* keep its number of retries: it is resent, whatever that number, unless
\* it leaves the list
C6_Live ==
    ([]<><<Timer /\ pc = "run" /\ IsOpen>>_vars) =>
        \A m \in 1..MaxPub : \A r \in 0..(MaxRetries - 1) :
            Has(m, r) ~> ~Has(m, r)

\* C6: with qos > 0 every pending element that is never acknowledged and
\* never cleared is resent again and again, with no ceiling on retries,
\* as long as timer events keep coming while the transport is connected;
\* an element leaves the list only through a PUBACK with its message id or
\* through the clear.
C6_Resend == C6_Leave /\ C6_Live

\* an element has been resent as often as the model follows it
C6_Witness ==
    /\ HasLine("resending")
    /\ \E i \in 1..ListLen(inflight) : inflight.elems[i].retries = MaxRetries

\* C7: mqtt_client_free disarms the retry timer, empties the list without
\* transmitting and marks the connection to be closed at once; after it
\* nothing is transmitted, and the connection's MG_EV_CLOSE starts no new
\* connection.
C7_Shutdown ==
    [][/\ Free =>
             /\ timer'.st # "armed"
             /\ inflight'.elems = <<>>
             /\ tx' = <<>>
             /\ conn = "nc" => (nc'.close /\ ~nc'.user_data)
       /\ pc = "freed" =>
             /\ tx' = <<>>
             /\ timer'.st # "armed"
             /\ inflight'.elems = <<>>
             /\ conn' = conn
             /\ nc'.st = "connecting" => nc.st = "connecting"
             /\ (\E made \in BOOLEAN : EvClose(made)) => nc' = NoConn]_vars

\* after publishes with qos > 0 the client was freed and its connection
\* has been closed
C7_Witness ==
    /\ pc = "freed" /\ qos > 0 /\ left = 0
    /\ conn = "nc" /\ nc = NoConn
    /\ timer = TimerOff

\* C8: with qos = 0 the list is always empty and there is no timer, and a
\* message is transmitted only by the publish call that carries it, once,
\* and only if the transport is connected then.
C8_Qos0 ==
    /\ qos = 0 => (inflight.elems = <<>> /\ timer = TimerNone)
    /\ [][qos = 0 =>
             /\ inflight'.elems = <<>>
             /\ timer' = TimerNone
             /\ tx' # <<>> =>
                   /\ IsOpen
                   /\ \E a \in AllocOutcomes : Publish(NextPub[1], NextPub[2], a)
                   /\ tx' = <<Sent(NextPub[1], message_id', NextPub[2], FALSE)>>]_vars

\* with qos = 0 the last of the publishes has just been transmitted
C8_Witness == qos = 0 /\ left = 0 /\ Len(tx) = 1 /\ ~tx[1].resend

\* C9: no two pending elements hold the same message id, also after the
\* 16-bit counter has wrapped while older elements are pending.  (Fails in
\* the code: mqtt_client_publish hands out the id of a pending element
\* again.)
C9_Unique ==
    \A i, j \in 1..ListLen(inflight) :
        i # j => inflight.elems[i].mid # inflight.elems[j].mid

\* the record field a token name stands for
FieldOf(name) ==
    IF name = NameType THEN "type"
    ELSE IF name = NameModel THEN "model"
    ELSE IF name = NameSubtype THEN "subtype"
    ELSE IF name = NameChannel THEN "channel"
    ELSE IF name = NameId THEN "id"
    ELSE IF name = NameProtocol THEN "protocol"
    ELSE "none"

\* the piece is a token without a default whose field the record lacks
AbsentToken(p, rec) ==
    /\ p.kind = "tok"
    /\ ~p.def
    /\ FieldOf(p.name) # "none"
    /\ \A i \in 1..Len(rec) : rec[i].key # FieldOf(p.name)

\* expand_topic returns on the piece taken as a format of its own: its
\* tokens are closed and their names are resolved
Expands(p) == ExpandTopic(PieceText(p), <<>>, <<>>).st = "ok"

\* what a piece is to contribute to the topic: literal text itself, an
\* absent token nothing, any other token what it expands to on its own
Contribution(p, rec, host) ==
    IF p.kind = "lit" THEN p.text
    ELSE IF AbsentToken(p, rec) THEN <<>>
    ELSE ExpandTopic(PieceText(p), rec, host).buf

RECURSIVE Contributions(_, _, _)
Contributions(ps, rec, host) ==
    IF ps = <<>> THEN <<>>
    ELSE Contribution(Head(ps), rec, host) \o Contributions(Tail(ps), rec, host)

\* C10: a token whose value the record lacks and that has no default adds
\* nothing to the topic, neither its name nor its leading character, and
\* the literal text around it is copied as it is.
C10_Absent ==
    (/\ topic.st # "idle"
     /\ \A k \in 1..Len(fmt) : Expands(fmt[k])
     /\ \E k \in 1..Len(fmt) : AbsentToken(fmt[k], data)) =>
        /\ topic.st = "ok"
        /\ topic.buf = Contributions(fmt, data, hostname)

\* a[/channel] on a record without channel has given exactly a
C10_Witness ==
    /\ fmt = <<Lit(<<"a">>), Tok(<<"/">>, NameChannel)>>
    /\ \A i \in 1..Len(data) : data[i].key # "channel"
    /\ data # <<>>
    /\ topic = [st |-> "ok", buf |-> <<"a">>]

\* the seven token names
ExactNames == {NameHostname, NameType, NameModel, NameSubtype, NameChannel,
               NameId, NameProtocol}

\* C11: a token whose name is not exactly one of hostname, type, model,
\* subtype, channel, id, protocol makes expand_topic end the process: no
\* topic is produced.  (Fails in the code: the name is compared over the
\* length of the token only, so every prefix of a name, the empty one
\* included, is resolved.)
C11_Exact ==
    (/\ topic.st # "idle"
     /\ \E k \in 1..Len(fmt) : fmt[k].kind = "tok" /\ fmt[k].name \notin ExactNames) =>
        topic.st = "exit"

\* the characters mqtt_sanitize_topic is to leave as they are
Kept == Upper \cup Lower \cup Digits \cup {".", "-"}

\* the string value the token piece p resolves to: the hostname, or the
\* string of the record's field
IsStringToken(p, rec) ==
    /\ p.kind = "tok"
    /\ \/ ResolveToken(p.name) = "hostname"
       \/ /\ ResolveToken(p.name) # "unknown"
          /\ WellKnown(rec, ResolveToken(p.name)).type = "DATA_STRING"

StringValue(p, rec, host) ==
    IF ResolveToken(p.name) = "hostname" THEN host
    ELSE WellKnown(rec, ResolveToken(p.name)).str

\* C13: what expand_topic inserts for a token that resolves to a string
\* value (a string field of the record, or the hostname) is the value with
\* every character outside [A-Za-z0-9.-] replaced by _, as long as the
\* value, and the topic written before the token stays as it was.  (Fails
\* in the code: the hostname is copied as it is.)
C13_Sanitized ==
    topic.st = "ok" =>
        \A k \in 1..Len(fmt) :
            IsStringToken(fmt[k], data) =>
                LET before == ExpandTopic(Flatten(SubSeq(fmt, 1, k - 1)), data, hostname).buf
                    after == ExpandTopic(Flatten(SubSeq(fmt, 1, k)), data, hostname).buf
                    v == StringValue(fmt[k], data, hostname)
                    from == Len(before) + Len(fmt[k].sep)
                IN  /\ Len(after) = from + Len(v)
                    /\ SubSeq(after, 1, Len(before)) = before
                    /\ \A i \in 1..Len(v) :
                          after[from + i] = IF v[i] \in Kept THEN v[i] ELSE "_"

\* C17: every mqtt_client_publish increments the 16-bit message id by one,
\* modulo 65536, whatever the qos and whether connected or not: the n-th
\* publish carries n mod 65536 (the first 1, the one after 65535 is 0), and
\* the element added and the message transmitted carry that same id.
C17_Counter ==
    /\ [](message_id \in {(MaxPub - left) % MidModulus,
                          (WrapStart + MaxPub - left) % MidModulus})
    /\ [][\A a \in AllocOutcomes :
             Publish(NextPub[1], NextPub[2], a) =>
                /\ message_id' = (message_id + 1) % MidModulus
                /\ message_id = MidModulus - 1 => message_id' = 0
                /\ \A k \in 1..Len(tx') : tx'[k].mid = message_id'
                /\ ListLen(inflight') > ListLen(inflight) =>
                      inflight'.elems[ListLen(inflight')].mid = message_id']_vars

\* the publish after the one with id 65535 has just been made while
\* connected with qos 1: id 0 in the list and on the wire
C17_Witness ==
    /\ message_id = 0 /\ left = MaxPub - 2
    /\ qos = 1
    /\ Len(tx) = 1 /\ tx[1].mid = 0 /\ ~tx[1].resend
    /\ ListLen(inflight) >= 1 /\ inflight.elems[ListLen(inflight)].mid = 0

\* C18: an MG_EV_CLOSE (with its reconnect) and a timer event that comes
\* while the transport is not connected leave the list as it is (the same
\* elements with their ids, retries and timeouts) and transmit nothing; an
\* element published while not connected is added to the list, and at a
\* timer event after the reconnection it is resent like any other element
\* once its timeout has passed.
C18_Survive ==
    [][/\ (pc = "run" /\ \E made \in BOOLEAN : EvClose(made)) =>
             inflight' = inflight /\ tx' = <<>>
       /\ (Timer /\ pc = "run" /\ ~IsOpen) =>
             inflight' = inflight /\ tx' = <<>>
       /\ (qos > 0 /\ ~IsOpen /\ Publish(NextPub[1], NextPub[2], "ok")) =>
             /\ tx' = <<>>
             /\ ListLen(inflight') = ListLen(inflight) + 1
             /\ SubSeq(inflight'.elems, 1, ListLen(inflight)) = inflight.elems
       /\ (Timer /\ pc = "run" /\ IsOpen) =>
             \A i \in 1..ListLen(inflight) :
                 LET e == inflight.elems[i]
                 IN  (e.mid \in offline /\ e.timeout < Now) =>
                        \E k \in 1..Len(tx') : tx'[k] = Sent(e.topic, e.mid, e.msg, TRUE)]_vars

\* the timer has just fired while not connected: two elements published
\* during the disconnect are pending, one past its timeout, none resent
C18_Witness ==
    /\ pc = "run" /\ ~IsOpen
    /\ timer = TimerAt(Now + TimerInterval)
    /\ tx = <<>>
    /\ ListLen(inflight) = 2
    /\ Mids(inflight) \subseteq offline
    /\ \E i \in 1..ListLen(inflight) :
          inflight.elems[i].timeout < Now /\ inflight.elems[i].retries = 0

\* how often e occurs in the sequence
Count(seq, e) == Cardinality({k \in 1..Len(seq) : seq[k] = e})

\* new is old without its element at i, the last one moved into its place
SwapRemoved(old, new, i) ==
    /\ Len(new) = Len(old) - 1
    /\ \A k \in 1..Len(new) : new[k] = IF k = i THEN old[Len(old)] ELSE old[k]
    /\ \A k \in 1..Len(old) :
          Count(new, old[k]) = Count(old, old[k]) - (IF old[k] = old[i] THEN 1 ELSE 0)

\* C19: a PUBACK with message id m, when an element holds m, removes
\* exactly one element with that id by moving the last element into its
\* place and shrinking the list: one element less, all the others (topic,
\* payload, id, timeout, retries) kept, wherever the removed one was; when
\* no element holds m a warning is logged and nothing changes.
C19_Ack ==
    [][\A m \in AckMids :
          (pc = "run" /\ EvPuback(m)) =>
              IF m \in Mids(inflight)
              THEN /\ \E i \in 1..ListLen(inflight) :
                         /\ inflight.elems[i].mid = m
                         /\ SwapRemoved(inflight.elems, inflight'.elems, i)
                   /\ \A k \in 1..Len(log') : log'[k].tag # "unknown_ack"
              ELSE /\ inflight' = inflight
                   /\ log' = <<Line("unknown_ack", m, 0)>>]_vars

\* of two pending elements the first has just been acknowledged: the
\* second one is now in its place
C19_Witness ==
    /\ pc = "run"
    /\ log = <<Line("acknowledge", 1, 1)>>
    /\ ListLen(inflight) = 1
    /\ inflight.elems[1].mid = 2

\* C20: a failed connect whose error code is that of the connect result
\* right before it is not logged, so a run of failures with one code is
\* logged once, at its first failure; a failure whose code differs from
\* the result before it (another error, a success, or no result yet) is
\* logged; and the close of the failed connection calls for a new
\* connection in every case.
C20_Dedup ==
    [][/\ \A status \in ConnectStatus \ {0} :
             (pc = "run" /\ EvConnect(status)) =>
                 log' = IF last_connect.code # status
                        THEN <<Line("connect_error", status, 0)>>
                        ELSE <<>>
       /\ (pc = "run" /\ nc.st = "failed" /\ \E made \in BOOLEAN : EvClose(made)) =>
             \/ conn' = "nc" /\ nc' = NewConn
             \/ conn' = "NULL" /\ \E k \in 1..Len(log') : log'[k].tag = "connect_failed"]_vars

\* a connect has just failed with the code of the failure before it, and
\* nothing was logged
C20_Witness ==
    /\ pc = "run"
    /\ nc.st = "failed"
    /\ last_connect = [code |-> ECONNREFUSED, first |-> FALSE]
    /\ log = <<>>

\* expand_topic returns on the format of the channel, whatever the record
WellFormed(t) == t.null \/ ExpandTopic(Flatten(t.f), <<>>, hostname).st = "ok"

\* C12: a malformed format (a token that is not closed, or one with an
\* unknown name) ends the process during data_output_mqtt_create, before
\* a connection is attempted and before any record is handled; it is never
\* found only when a record is handled.  (Fails in the code:
\* data_output_mqtt_create does not look into the formats; expand_topic
\* meets the token when print_mqtt_data handles a record.)
C12_ConfigTime ==
    /\ pc = "run" => WellFormed(devices) /\ WellFormed(events) /\ WellFormed(states)
    /\ topic.st = "exit" => conn = "NULL" /\ left = MaxPub

\* the step is a call of print_mqtt_data that returned
Printed == left' = left - 1 /\ pc' = "run"

\* the topic the format of the channel expands to for the record
Expanded(t, rec) == ExpandTopic(Flatten(t.f), rec, hostname).buf

HasModel(rec) == \E i \in 1..Len(rec) : rec[i].key = "model"

\* the routing of a record with model: no publish to the states topic; the
\* JSON of the record to the events topic first, if events is set; after
\* it only the publishes under the devices topic, if devices is set
ModelRouted(rec, ps) ==
    LET n == IF events.null THEN 0 ELSE 1
    IN  /\ Len(ps) >= n
        /\ ~events.null => ps[1] = Call(Expanded(events, rec), Json(rec))
        /\ devices.null => Len(ps) = n
        /\ \A k \in (n + 1)..Len(ps) :
              /\ ps[k].payload.kind = "text"
              /\ Len(ps[k].topic) > Len(Expanded(devices, rec))
              /\ SubSeq(ps[k].topic, 1, Len(Expanded(devices, rec)))
                    = Expanded(devices, rec)

\* C14, as stated: print_mqtt_data on a record without model makes exactly
\* one publish, the JSON of the record to the expanded states topic, if
\* states is set and none otherwise; on a record with model it makes no
\* states publish, the JSON publish to the events topic first if events is
\* set, and the per-field devices publishes after it if devices is set.
\* (Fails: when the malloc of the states message fails nothing is
\* published.)
C14_Orig ==
    [][Printed =>
          IF HasModel(data')
          THEN ModelRouted(data', pubs')
          ELSE pubs' = IF states.null THEN <<>>
                       ELSE <<Call(Expanded(states, data'), Json(data'))>>]_vars

\* C14, amended: the same, except that a record without model is skipped
\* with a warning and without a publish when states is set and the malloc
\* of the states message fails.
C14_Routing ==
    [][Printed =>
          IF HasModel(data')
          THEN ModelRouted(data', pubs')
          ELSE pubs' = IF states.null \/ (\E k \in 1..Len(log') : log'[k].tag = "warn_malloc")
                       THEN <<>>
                       ELSE <<Call(Expanded(states, data'), Json(data'))>>]_vars

\* a record with model was handled with events and devices set: the JSON
\* to the events topic, then the fields
C14_Witness ==
    /\ pc = "run" /\ left < MaxPub
    /\ ~events.null /\ ~devices.null
    /\ HasModel(data)
    /\ Len(pubs) = 3
    /\ pubs[1] = Call(Expanded(events, data), Json(data))
    /\ pubs[2].payload.kind = "text" /\ pubs[3].payload.kind = "text"

\* the fields that are to get a publish of their own, in record order
OwnFields(rec) == SelectSeq(rec, LAMBDA d : d.key \notin {"type", "model", "subtype"})

\* the text of a scalar value
ScalarText(d) == IF d.type = "DATA_STRING" THEN d.str ELSE Dec(d.int)

\* the publishes of one field under the devices topic base: one to
\* base/key for a scalar, one to base/key/index for each value of an array
OwnPubs(base, d) ==
    IF d.type = "DATA_ARRAY"
    THEN [c \in 1..Len(d.arr) |->
             Call(base \o <<"/", d.key, "/">> \o Dec(c - 1), Text(Dec(d.arr[c])))]
    ELSE <<Call(base \o <<"/", d.key>>, Text(ScalarText(d)))>>

RECURSIVE AllOwnPubs(_, _)
AllOwnPubs(base, fields) ==
    IF fields = <<>> THEN <<>>
    ELSE OwnPubs(base, Head(fields)) \o AllOwnPubs(base, Tail(fields))

\* the publishes of the step after the one to the events topic
FieldPubsOf(ps) == SubSeq(ps, IF events.null THEN 1 ELSE 2, Len(ps))

\* the step is a call of print_mqtt_data that returned, on a record with
\* model and with devices set
PrintedFields == Printed /\ HasModel(data') /\ ~devices.null

\* no publish ends in type, model or subtype; id and channel get theirs
Trailing(rec, ps) ==
    /\ \A k \in 1..Len(ps) :
          ps[k].topic[Len(ps[k].topic)] \notin {"type", "model", "subtype"}
    /\ \A i \in 1..Len(rec) :
          rec[i].key \in {"id", "channel"} =>
              \E k \in 1..Len(ps) :
                  ps[k].topic = Expanded(devices, rec) \o <<"/", rec[i].key>>

DevicesText ==
    <<"d", "e", "v", "i", "c", "e", "s", "[", "/", "t", "y", "p", "e", "]",
      "[", "/", "m", "o", "d", "e", "l", "]",
      "[", "/", "s", "u", "b", "t", "y", "p", "e", "]",
      "[", "/", "c", "h", "a", "n", "n", "e", "l", "]", "[", "/", "i", "d", "]">>
EventsText == <<"e", "v", "e", "n", "t", "s">>
StatesText == <<"s", "t", "a", "t", "e", "s">>

\* the channel is enabled with its built-in format
IsDefault(t, text) ==
    /\ ~t.null
    /\ Flatten(t.f) = <<"r", "t", "l", "_", "4", "3", "3", "/">> \o hostname \o <<"/">> \o text

\* the channel is as the option asks: disabled if the option is not given,
\* the built-in format if it has no value, else the format given
AsGiven(t, o, text) ==
    IF ~o.given THEN t.null
    ELSE IF o.val.null THEN IsDefault(t, text)
    ELSE t = o.val

\* C16, as stated: with none of the options devices, events, states given
\* all three channels are enabled with the built-in formats under
\* rtl_433/<hostname>; with at least one given, exactly the given ones are
\* enabled.  (Fails: a channel whose strdup fails stays disabled, and if
\* that leaves none the built-in formats are taken.)
C16_Orig ==
    [][CreateCall =>
          IF ~options.d.given /\ ~options.e.given /\ ~options.s.given
          THEN /\ IsDefault(devices', DevicesText)
               /\ IsDefault(events', EventsText)
               /\ IsDefault(states', StatesText)
          ELSE /\ AsGiven(devices', options.d, DevicesText)
               /\ AsGiven(events', options.e, EventsText)
               /\ AsGiven(states', options.s, StatesText)]_vars

\* C16, amended: the same when every strdup of a format succeeds.  An
\* option whose strdup fails counts as not given; if no option is left,
\* each channel whose strdup then succeeds gets its built-in format and
\* the others stay disabled.
C16_Defaults ==
    [][\A q \in {0, 1}, fails, dfails \in SUBSET Channels, made \in BOOLEAN :
          Create(options.d, options.e, options.s, q, fails, dfails, made) =>
              LET gd == [options.d EXCEPT !.given = @ /\ "devices" \notin fails]
                  ge == [options.e EXCEPT !.given = @ /\ "events" \notin fails]
                  gs == [options.s EXCEPT !.given = @ /\ "states" \notin fails]
              IN  IF ~gd.given /\ ~ge.given /\ ~gs.given
                  THEN /\ IF "devices" \in dfails THEN devices'.null
                          ELSE IsDefault(devices', DevicesText)
                       /\ IF "events" \in dfails THEN events'.null
                          ELSE IsDefault(events', EventsText)
                       /\ IF "states" \in dfails THEN states'.null
                          ELSE IsDefault(states', StatesText)
                  ELSE /\ AsGiven(devices', gd, DevicesText)
                       /\ AsGiven(events', ge, EventsText)
                       /\ AsGiven(states', gs, StatesText)]_vars

\* created with the events option alone, given without a value: events has
\* its built-in format, devices and states are disabled
C16_Witness ==
    /\ pc = "run"
    /\ options = [NoOptions EXCEPT !.e = [given |-> TRUE, val |-> NoTopic]]
    /\ devices.null /\ states.null
    /\ IsDefault(events, EventsText)

\* the step is the close handler on a connection that still has its client
ClosedAttached == nc.user_data /\ \E made \in BOOLEAN : EvClose(made)

\* C21: when a connection closes while the client is not shut down, the
\* "Connection failed" line is logged exactly when no session was
\* established on that connection: not after a successful connect.  (Fails
\* in the code: the close handler logs the line when prev_status is 0, that
\* is after a successful connect, and not after a failed one.)
C21_Failed ==
    [][ClosedAttached =>
          ((\E i \in 1..Len(log') : log'[i].tag = "connection_failed")
              <=> nc.st # "open")]_vars

\* the step is a mqtt_client_publish call in which an allocation of
\* inflight_add fails
PublishAllocFails ==
    \E a \in AllocOutcomes \ {"ok"} : Publish(NextPub[1], NextPub[2], a)

\* C22: an allocation failure in inflight_add (the realloc that grows the
\* list, the strdup of the topic or of the payload) is not fatal: the
\* process keeps running, the list holds the same elements as before the
\* call, and mqtt_client_publish still transmits at once when connected.
\* (Fails in the code: a failing realloc ends the process.)
C22_NonFatal ==
    [][PublishAllocFails =>
          /\ pc' = "run"
          /\ inflight'.elems = inflight.elems
          /\ Connected =>
                 tx' = <<Sent(NextPub[1], NextMid(message_id), NextPub[2], FALSE)>>]_vars

\* the token piece p resolves to a field the record has
IsFieldToken(p, rec) ==
    /\ p.kind = "tok"
    /\ ResolveToken(p.name) \notin {"unknown", "hostname"}
    /\ WellKnown(rec, ResolveToken(p.name)) # NoData

\* C23: a token that resolves to an integer field adds its leading
\* character and the decimal rendering of the integer; a token that
\* resolves to a field that is neither a string nor an integer (a double,
\* an array, a nested record) is an error: expand_topic returns no topic
\* for it, and never one with the leading character alone.  (Fails in the
\* code: append_topic writes a message and appends nothing, after the
\* leading character was written, and expand_topic returns the topic.)
C23_Kinds ==
    (/\ topic.st # "idle"
     /\ \A k \in 1..Len(fmt) : Expands(fmt[k])) =>
        \A k \in 1..Len(fmt) :
            IsFieldToken(fmt[k], data) =>
                LET d == WellKnown(data, ResolveToken(fmt[k].name))
                    before == ExpandTopic(Flatten(SubSeq(fmt, 1, k - 1)), data, hostname).buf
                    after == ExpandTopic(Flatten(SubSeq(fmt, 1, k)), data, hostname).buf
                IN  /\ d.type = "DATA_INT" =>
                          /\ topic.st = "ok"
                          /\ after = before \o fmt[k].sep \o Dec(d.int)
                    /\ d.type \notin {"DATA_STRING", "DATA_INT"} => topic.st # "ok"

\* mqtt_client_free has detached the client from the connection, which is
\* not closed yet
Detached == pc = "freed" /\ ~nc.user_data /\ nc.st # "none"

\* C24: after mqtt_client_free has set the connection's user_data to NULL,
\* every event still delivered on the connection (connect result, CONNACK,
\* PUBACK, close) is handled without a read or write of the freed client:
\* the process does not fault and nothing of the client changes.  (Fails
\* in the code: the PUBACK handler passes &ctx->inflight to
\* inflight_remove without a test of ctx.)
C24_Detached ==
    [][Detached =>
          /\ pc' = "freed"
          /\ inflight' = inflight
          /\ <<qos, conn, prev_status, message_id>>' = <<qos, conn, prev_status, message_id>>]_vars

====
